---------------------------- MODULE Spec2Model ----------------------------
(***************************************************************************)
(* Iterative review-convergence engine of jofisiva/code_review.            *)
(*                                                                         *)
(* The repository holds two implementations of the engine:                 *)
(*   "root" : src/iterative_improvement_loop.py                            *)
(*   "core" : src/core/iterative_improvement_loop.py                       *)
(* Both are modelled; the variable impl says which one a session runs.     *)
(*                                                                         *)
(* The Critic (file_review_graph.invoke), the Fixer (the coder agent) and  *)
(* the remote thread store (azure_client) are external collaborators: a    *)
(* call returns one of the values its interface allows, or raises.         *)
(***************************************************************************)
EXTENDS Integers, Sequences, FiniteSets, TLC

(***************************************************************************)
(* Bounds of the model.                                                    *)
(***************************************************************************)
\* largest max_iterations a caller passes (the smallest is 0)
MaxIter == 3
\* remote calls that may raise in one session
MaxFailures == 1

(***************************************************************************)
(* Critique text.  A critique is a sequence of lines; a line is a record   *)
(*   k    : "hdr"  a header line          "## <s>"                          *)
(*          "bul"  a bullet line          "- <t> ..."                       *)
(*          "txt"  any other line         "<t> ..."                         *)
(*          "fence" a code fence line (three backquotes)                    *)
(*   s    : the section name of a header                                   *)
(*   t    : the words of the line (an atom standing for its text)          *)
(*   n    : the integer of the line reference in the text, 0 when the text *)
(*          holds no reference                                             *)
(*   form : how the reference is written: "line" for "line <n>",           *)
(*          "lines" for "lines <n>-<m>", "none"                            *)
(***************************************************************************)
Hdr(s) == [k |-> "hdr", s |-> s, t |-> "", n |-> 0, form |-> "none"]
Bul(t, n) == [k |-> "bul", s |-> "", t |-> t, n |-> n,
              form |-> IF n = 0 THEN "none" ELSE "line"]
BulLines(t, n) == [k |-> "bul", s |-> "", t |-> t, n |-> n, form |-> "lines"]
Txt(t, n) == [k |-> "txt", s |-> "", t |-> t, n |-> n,
              form |-> IF n = 0 THEN "none" ELSE "line"]
Fence == [k |-> "fence", s |-> "", t |-> "fence", n |-> 0, form |-> "none"]

NoSuggestions == "No suggestions"

\* a fenced code block of one line
CodeBlock == <<Fence, Txt("code", 0), Fence>>

\* The critiques the Critic may return.
Critiques ==
  { <<>>,
    <<Hdr("Bugs"), Bul("a", 5)>>,
    <<Hdr("Bugs"), Bul("a", 5)>> \o CodeBlock,
    <<Hdr("Bugs"), Bul("b", 5)>> \o CodeBlock,
    CodeBlock \o <<Hdr("Bugs"), Bul("a", 5), Bul("a", 5)>>,
    <<Hdr("Bugs"), Bul("a", 5), Hdr("Style"), Bul("c", 5)>> \o CodeBlock,
    <<Hdr("Style"), Bul("d", 0)>> \o CodeBlock,
    CodeBlock,
    <<Bul("s", 7)>> \o CodeBlock,
    <<Hdr("Bugs"), Bul("a", 5), Txt(NoSuggestions, 0)>> }

(***************************************************************************)
(* Issues.  An issue is [section, text, line]; text is the sequence of the *)
(* atoms of the lines it was read from.                                    *)
(***************************************************************************)
Issue(section, text, line) == [section |-> section, text |-> text, line |-> line]

\* root: the first integer after "line" or "lines" in the bullet's text, else 1
RootLineNumber(l) == IF l.form \in {"line", "lines"} THEN l.n ELSE 1

RECURSIVE RootScan(_, _, _)
RootScan(lines, current_section, issues) ==
  IF lines = <<>> THEN issues
  ELSE LET l == Head(lines) IN
       IF l.k = "hdr"
         THEN RootScan(Tail(lines), l.s, issues)
       ELSE IF l.k = "bul" /\ current_section # ""
         THEN RootScan(Tail(lines), current_section,
                Append(issues, Issue(current_section, <<l.t>>, RootLineNumber(l))))
       ELSE RootScan(Tail(lines), current_section, issues)

\* root _extract_issues
_extract_issues(reviewer_analysis) == RootScan(reviewer_analysis, "", <<>>)

\* core: the first reference written "line <n>" in the accumulated text of
\* the issue, None (0) when there is none
RECURSIVE CoreLineNumber(_)
CoreLineNumber(cur) ==
  IF cur = <<>> THEN 0
  ELSE IF Head(cur).form = "line" THEN Head(cur).n
  ELSE CoreLineNumber(Tail(cur))

CoreText(cur) == [i \in 1..Len(cur) |-> cur[i].t]

\* core: "if current_issue_text: ... if line_number: issues.append(...)"
CoreFlush(current_section, cur, issues) ==
  IF cur # <<>> /\ CoreLineNumber(cur) # 0
    THEN Append(issues, Issue(current_section, CoreText(cur), CoreLineNumber(cur)))
    ELSE issues

RECURSIVE CoreScan(_, _, _, _)
CoreScan(lines, current_section, cur, issues) ==
  IF lines = <<>> THEN CoreFlush(current_section, cur, issues)
  ELSE LET l == Head(lines) IN
       IF l.k = "hdr"
         THEN CoreScan(Tail(lines), l.s, cur, issues)
       ELSE IF l.k = "bul"
         THEN CoreScan(Tail(lines), current_section, <<l>>,
                       CoreFlush(current_section, cur, issues))
       ELSE IF cur # <<>>
         THEN CoreScan(Tail(lines), current_section, Append(cur, l), issues)
       ELSE CoreScan(Tail(lines), current_section, cur, issues)

\* core _extract_issues
core_extract_issues(reviewer_analysis) == CoreScan(reviewer_analysis, "", <<>>, <<>>)

(***************************************************************************)
(* root: code suggestions, the fenced blocks of the critique.              *)
(***************************************************************************)
SuggestionSections == {"Code Suggestions", "Suggested Changes"}

\* re.findall of the fenced blocks: the contents of the closed blocks
RECURSIVE ClosedBlocks(_, _, _, _)
ClosedBlocks(lines, inside, cur, blocks) ==
  IF lines = <<>> THEN blocks
  ELSE LET l == Head(lines) IN
       IF l.k = "fence"
         THEN IF inside THEN ClosedBlocks(Tail(lines), FALSE, <<>>, Append(blocks, cur))
                        ELSE ClosedBlocks(Tail(lines), TRUE, <<>>, blocks)
       ELSE IF inside THEN ClosedBlocks(Tail(lines), TRUE, Append(cur, l.t), blocks)
       ELSE ClosedBlocks(Tail(lines), FALSE, cur, blocks)

\* re.split of a suggestions section at its fences, the odd parts: the text
\* after every odd fence up to the next fence or the end of the section
RECURSIVE SectionBlocks(_, _, _, _, _)
SectionBlocks(lines, inSection, inside, cur, blocks) ==
  IF lines = <<>> THEN IF inSection /\ inside THEN Append(blocks, cur) ELSE blocks
  ELSE LET l == Head(lines) IN
       IF l.k = "hdr"
         THEN SectionBlocks(Tail(lines), l.s \in SuggestionSections, FALSE, <<>>,
                            IF inSection /\ inside THEN Append(blocks, cur) ELSE blocks)
       ELSE IF ~inSection THEN SectionBlocks(Tail(lines), FALSE, FALSE, <<>>, blocks)
       ELSE IF l.k = "fence"
         THEN IF inside THEN SectionBlocks(Tail(lines), TRUE, FALSE, <<>>, Append(blocks, cur))
                        ELSE SectionBlocks(Tail(lines), TRUE, TRUE, <<>>, blocks)
       ELSE IF inside THEN SectionBlocks(Tail(lines), TRUE, TRUE, Append(cur, l.t), blocks)
       ELSE SectionBlocks(Tail(lines), TRUE, FALSE, cur, blocks)

\* "if block not in suggestions": a block that ends with a line break differs
\* from every stripped entry, so only an empty block can be found there
RECURSIVE AddInline(_, _)
AddInline(blocks, suggestions) ==
  IF blocks = <<>> THEN suggestions
  ELSE LET b == Head(blocks) IN
       IF b = <<>> /\ \E i \in 1..Len(suggestions) : suggestions[i] = <<>>
         THEN AddInline(Tail(blocks), suggestions)
         ELSE AddInline(Tail(blocks), Append(suggestions, b))

\* root _extract_code_suggestions
_extract_code_suggestions(reviewer_analysis) ==
  AddInline(ClosedBlocks(reviewer_analysis, FALSE, <<>>, <<>>),
            SectionBlocks(reviewer_analysis, FALSE, FALSE, <<>>, <<>>))

\* core: "No suggestions" in reviewer_analysis
HasNoSuggestionsPhrase(reviewer_analysis) ==
  \E i \in 1..Len(reviewer_analysis) : reviewer_analysis[i].t = NoSuggestions

(***************************************************************************)
(* Issue keys.  root: f"{file_path}:{line}:{section}";                     *)
(* core: f"{file_path}:{line}:{issue_text}".  A session reviews one file,  *)
(* ThisFile, so the file part of a key is left out.                        *)
(***************************************************************************)
ThisFile == "f"

RootKey(issue) == <<issue.line, issue.section>>
CoreKey(issue) == <<issue.line, issue.text>>

RootKeys(issues) == {RootKey(issues[i]) : i \in 1..Len(issues)}
CoreKeys(issues) == {CoreKey(issues[i]) : i \in 1..Len(issues)}

(***************************************************************************)
(* Python dicts keep insertion order: a dict is a sequence of [key, tid]   *)
(* entries with distinct keys.                                             *)
(***************************************************************************)
DictKeys(d) == {d[i].key : i \in 1..Len(d)}
DictValues(d) == {d[i].tid : i \in 1..Len(d)}
DictHas(d, key) == key \in DictKeys(d)
DictGet(d, key) == d[CHOOSE i \in 1..Len(d) : d[i].key = key].tid
\* a dict that forgets what is put into it
DictPutForgotten(d, key, tid) == d

\* d[key] = tid
DictPut(d, key, tid) ==
  IF DictHas(d, key)
    THEN [i \in 1..Len(d) |-> IF d[i].key = key THEN [key |-> key, tid |-> tid] ELSE d[i]]
    ELSE Append(d, [key |-> key, tid |-> tid])

\* an update that merges nothing
DictUpdateSkipped(d, e) == d

\* d.update(e)
RECURSIVE DictUpdate(_, _)
DictUpdate(d, e) ==
  IF e = <<>> THEN d ELSE DictUpdate(DictPut(d, Head(e).key, Head(e).tid), Tail(e))

(***************************************************************************)
(* The remote thread store of the pull request: the sequence of its        *)
(* threads, a thread's id being its place in the sequence.                 *)
(*   file, line : the thread context (file "" and line 0 when absent)      *)
(*   sec        : the section named in the thread's first comment          *)
(*   status     : "active" or "fixed"                                      *)
(*   followups  : follow-up comments posted on the thread                  *)
(*   confirms   : "resolved" confirmation comments posted on the thread    *)
(*   fixes      : set-status("fixed") calls the store received for it      *)
(*   kind, key  : what the thread was created as ("summary", "issue",      *)
(*                "foreign") and, for an issue thread, for which issue key *)
(***************************************************************************)
Thread(file, line, sec, kind, key) ==
  [file |-> file, line |-> line, sec |-> sec, status |-> "active",
   followups |-> 0, confirms |-> 0, fixes |-> 0, kind |-> kind, key |-> key]

NoKey == <<0, "">>

\* a store that answers a create call without keeping the thread
add_pull_request_thread_lost(store, thread) == store

\* git_client.create_thread / POST .../threads
add_pull_request_thread(store, thread) == Append(store, thread)

\* add_thread_comment: a follow-up on an issue
add_thread_comment(store, tid) == [store EXCEPT ![tid].followups = @ + 1]

\* add_thread_comment: the confirmation that an issue is resolved
add_confirmation_comment(store, tid) == [store EXCEPT ![tid].confirms = @ + 1]

\* update_thread_status(..., status="fixed")
update_thread_status(store, tid) ==
  [store EXCEPT ![tid].status = "fixed", ![tid].fixes = @ + 1]

Max(S) == CHOOSE x \in S : \A y \in S : y <= x

(***************************************************************************)
(* A remote call may raise.  The calls an operation makes are numbered in  *)
(* the order it makes them; F is the set of the numbers of the calls that  *)
(* raise (root, which catches them), fail the number of the one call that  *)
(* raises, 0 for none (core, which does not catch).                        *)
(***************************************************************************)

(***************************************************************************)
(* root _post_review_comments_to_pr                                        *)
(***************************************************************************)
\* existing_threads: "file:line" -> thread id over the listed threads of this
\* file, a later thread replacing an earlier one at the same line; a thread
\* without a line counts as line 1 ("right_line or 1")
RootThreadLine(thread) == IF thread.line = 0 THEN 1 ELSE thread.line

\* a listing that is not filtered by file path
RootExistingThreadsOfAnyFile(store) ==
  [ln \in {RootThreadLine(store[i]) : i \in 1..Len(store)} |->
     Max({i \in 1..Len(store) : RootThreadLine(store[i]) = ln})]

\* existing_threads: the listed threads of this file, keyed by line
RootExistingThreads(store) ==
  LET mine == {i \in 1..Len(store) : store[i].file = ThisFile}
  IN [ln \in {RootThreadLine(store[i]) : i \in mine} |->
        Max({i \in mine : RootThreadLine(store[i]) = ln})]

RECURSIVE RootPostIssues(_, _, _, _, _, _)
RootPostIssues(issues, i, existing_threads, store, issue_threads, F) ==
  IF i > Len(issues) THEN [store |-> store, issue_threads |-> issue_threads]
  ELSE LET issue == issues[i]
           issue_key == RootKey(issue)
       IN IF (2 + i) \in F
            THEN RootPostIssues(issues, i + 1, existing_threads, store, issue_threads, F)
          ELSE IF issue.line \in DOMAIN existing_threads
            THEN RootPostIssues(issues, i + 1, existing_threads,
                   add_thread_comment(store, existing_threads[issue.line]),
                   DictPut(issue_threads, issue_key, existing_threads[issue.line]), F)
          ELSE RootPostIssues(issues, i + 1, existing_threads,
                   add_pull_request_thread(store,
                     Thread(ThisFile, issue.line, issue.section, "issue", issue_key)),
                   DictPut(issue_threads, issue_key, Len(store) + 1), F)

\* call 1 lists the threads, call 2 posts the summary, call 2+i posts issue i
_post_review_comments_to_pr(store, reviewer_analysis, F) ==
  LET existing_threads == IF 1 \in F THEN <<>> ELSE RootExistingThreads(store)
      summarised == IF 2 \in F THEN store
                    ELSE add_pull_request_thread(store,
                           Thread(ThisFile, 0, "", "summary", NoKey))
  IN RootPostIssues(_extract_issues(reviewer_analysis), 1, existing_threads,
                    summarised, <<>>, F)

RootPostCalls(reviewer_analysis) == 2 + Len(_extract_issues(reviewer_analysis))

(***************************************************************************)
(* root improve_code, "Identify resolved issues": every key of             *)
(* issue_threads that is neither in the current issue set nor in           *)
(* resolved_issues is added to resolved_issues, then its thread is set to  *)
(* fixed (call 2j-1) and gets a confirmation comment (call 2j).            *)
(***************************************************************************)
RootIsResolvedNow(issue_key, current_issue_keys, resolved_issues) ==
  issue_key \notin current_issue_keys /\ issue_key \notin resolved_issues

RECURSIVE RootMarkResolved(_, _, _, _, _, _, _)
RootMarkResolved(entries, j, current_issue_keys, resolved_issues, store, marked, F) ==
  IF entries = <<>>
    THEN [store |-> store, resolved_issues |-> resolved_issues, marked |-> marked]
  ELSE LET e == Head(entries) IN
       IF RootIsResolvedNow(e.key, current_issue_keys, resolved_issues)
         THEN RootMarkResolved(Tail(entries), j + 1, current_issue_keys,
                resolved_issues \cup {e.key},
                IF (2 * j + 1) \in F THEN store
                ELSE IF (2 * j + 2) \in F THEN update_thread_status(store, e.tid)
                ELSE add_confirmation_comment(update_thread_status(store, e.tid), e.tid),
                Append(marked, e.key), F)
         ELSE RootMarkResolved(Tail(entries), j, current_issue_keys,
                resolved_issues, store, marked, F)

RootMarkCalls(issue_threads, current_issue_keys, resolved_issues) ==
  2 * Cardinality({i \in 1..Len(issue_threads) :
        RootIsResolvedNow(issue_threads[i].key, current_issue_keys, resolved_issues)})

(***************************************************************************)
(* root improve_code, "Mark any remaining threads as fixed": the loop over *)
(* issue_threads.items() ends at the "break" of its first pass.  In that   *)
(* pass the first entry, when not in resolved_issues, is set to fixed      *)
(* (call 1) and commented (call 2) and only then added to resolved_issues; *)
(* then every thread of issue_threads is set to fixed (call 2+i).          *)
(***************************************************************************)
RECURSIVE RootFixAll(_, _, _, _)
RootFixAll(entries, i, store, F) ==
  IF i > Len(entries) THEN store
  ELSE RootFixAll(entries, i + 1,
         IF (2 + i) \in F THEN store ELSE update_thread_status(store, entries[i].tid), F)

RootCloseRemaining(issue_threads, resolved_issues, store, F) ==
  LET first == issue_threads[1]
      open == first.key \notin resolved_issues
      ok == open /\ 1 \notin F /\ 2 \notin F
      store1 == IF ~open \/ 1 \in F THEN store
                ELSE IF 2 \in F THEN update_thread_status(store, first.tid)
                ELSE add_confirmation_comment(update_thread_status(store, first.tid), first.tid)
  IN [store |-> RootFixAll(issue_threads, 1, store1, F),
      resolved_issues |-> IF ok THEN resolved_issues \cup {first.key} ELSE resolved_issues]

RootCloseCalls(issue_threads) == 2 + Len(issue_threads)

(***************************************************************************)
(* core _post_review_comments_to_pr.  No call is guarded: the first call   *)
(* that raises ends the method, and the session, with what was done so far.*)
(***************************************************************************)
\* "if section in first_comment": the section name occurs in the first comment
SectionInFirstComment(section, thread) == section = "" \/ section = thread.sec

\* the first listed thread of this file at this line whose first comment
\* names the section; 0 when there is none
CoreExistingThread(existing_threads, line_number, section) ==
  LET found == {i \in 1..Len(existing_threads) :
                  /\ existing_threads[i].file = ThisFile
                  /\ existing_threads[i].line = line_number
                  /\ SectionInFirstComment(section, existing_threads[i])}
  IN IF found = {} THEN 0 ELSE CHOOSE i \in found : \A j \in found : i <= j

RECURSIVE CorePostIssues(_, _, _, _, _, _)
CorePostIssues(issues, i, existing_threads, store, thread_map, fail) ==
  IF i > Len(issues)
    THEN [store |-> store, thread_map |-> thread_map, raised |-> FALSE]
  ELSE IF fail = 2 + i
    THEN [store |-> store, thread_map |-> thread_map, raised |-> TRUE]
  ELSE LET issue == issues[i]
           issue_key == CoreKey(issue)
           existing_thread_id == CoreExistingThread(existing_threads, issue.line, issue.section)
       IN IF existing_thread_id # 0
            THEN CorePostIssues(issues, i + 1, existing_threads,
                   add_thread_comment(store, existing_thread_id),
                   DictPut(thread_map, issue_key, existing_thread_id), fail)
            ELSE CorePostIssues(issues, i + 1, existing_threads,
                   add_pull_request_thread(store,
                     Thread(ThisFile, issue.line, issue.section, "issue", issue_key)),
                   DictPut(thread_map, issue_key, Len(store) + 1), fail)

\* call 1 lists the threads, call 2 posts the summary (with no file context),
\* call 2+i posts issue i
core_post_review_comments_to_pr(store, reviewer_analysis, fail) ==
  IF fail = 1 THEN [store |-> store, thread_map |-> <<>>, raised |-> TRUE]
  ELSE IF fail = 2 THEN [store |-> store, thread_map |-> <<>>, raised |-> TRUE]
  ELSE CorePostIssues(core_extract_issues(reviewer_analysis), 1, store,
         add_pull_request_thread(store, Thread("", 0, "", "summary", NoKey)),
         <<>>, fail)

CorePostCalls(reviewer_analysis) == 2 + Len(core_extract_issues(reviewer_analysis))

(***************************************************************************)
(* core improve_code, "Update thread status for resolved issues": the      *)
(* previous issues whose text no current issue has; each whose key is in   *)
(* all_threads has its thread set to fixed (call 2j-1) and commented       *)
(* (call 2j).                                                              *)
(***************************************************************************)
CoreIsResolved(prev_issue, current_issues) ==
  \A i \in 1..Len(current_issues) : prev_issue.text # current_issues[i].text

RECURSIVE CoreMarkResolved(_, _, _, _, _, _, _)
CoreMarkResolved(previous_issues, j, current_issues, all_threads, store, marked, fail) ==
  IF previous_issues = <<>>
    THEN [store |-> store, marked |-> marked, raised |-> FALSE]
  ELSE LET prev_issue == Head(previous_issues)
           issue_key == CoreKey(prev_issue)
       IN IF CoreIsResolved(prev_issue, current_issues) /\ DictHas(all_threads, issue_key)
            THEN LET thread_id == DictGet(all_threads, issue_key) IN
                 IF fail = 2 * j + 1
                   THEN [store |-> store, marked |-> Append(marked, issue_key),
                         raised |-> TRUE]
                 ELSE IF fail = 2 * j + 2
                   THEN [store |-> update_thread_status(store, thread_id),
                         marked |-> Append(marked, issue_key), raised |-> TRUE]
                 ELSE CoreMarkResolved(Tail(previous_issues), j + 1, current_issues,
                        all_threads,
                        add_confirmation_comment(update_thread_status(store, thread_id),
                                                 thread_id),
                        Append(marked, issue_key), fail)
            ELSE CoreMarkResolved(Tail(previous_issues), j, current_issues,
                   all_threads, store, marked, fail)

CoreMarkCalls(previous_issues, current_issues, all_threads) ==
  2 * Cardinality({i \in 1..Len(previous_issues) :
        /\ CoreIsResolved(previous_issues[i], current_issues)
        /\ DictHas(all_threads, CoreKey(previous_issues[i]))})

(***************************************************************************)
(* State of one improve_code session.                                      *)
(***************************************************************************)
VARIABLES
  impl,                \* "root" or "core": the implementation the session runs
  max_iterations,      \* argument of improve_code
  post_comments,       \* argument of improve_code
  pc,                  \* where improve_code is
  iteration,           \* the loop variable
  old_content,         \* the baseline content handed to the Critic
  current_content,     \* the content under review
  improved_content,    \* core: what the Fixer returned in this iteration
  reviewer_analysis,   \* the critique of this iteration
  current_issues,      \* the issues extracted from it
  previous_issues,     \* core: the issues of the previous iteration
  issue_threads,       \* the ledger: issue key -> thread id (core: all_threads)
  resolved_issues,     \* root: the keys already marked resolved
  all_issues_resolved, \* root: the flag set at the "no suggestions" break
  iterations,          \* the iteration records
  final_result,        \* the result improve_code returns, NoResult before
  threads,             \* the remote thread store
  failures,            \* remote calls that raised so far
  criticCalls,         \* Critic invocations so far
  fixerCalls,          \* Fixer invocations so far
  keys_log,            \* keys_log[k]: the issue keys of iteration k
  marked_log,          \* marked_log[k]: the keys marked resolved in iteration k
  stall,               \* the calls made when the Fixer last returned its input
  files,               \* batch: the changed files of the pull request
  file_index,          \* batch: the place of the file being processed
  file_results,        \* batch: the entries of the batch result
  file_log             \* batch: what happened to each file that was processed

vars == <<impl, max_iterations, post_comments, pc, iteration, old_content,
          current_content, improved_content, reviewer_analysis, current_issues,
          previous_issues, issue_threads, resolved_issues, all_issues_resolved,
          iterations, final_result, threads, failures, criticCalls, fixerCalls,
          keys_log, marked_log, stall, files, file_index, file_results, file_log>>

\* the variables of batch processing
bvars == <<files, file_index, file_results, file_log>>

\* File contents are numbered.  The engine only ever compares the Fixer's
\* answer with the content it was given: the Fixer returns that content
\* or a content the session has not seen (the next number).
Contents == {current_content, current_content + 1}
NoResult == [returned |-> FALSE]
NoStall == [stalled |-> FALSE]

\* The remote store when the session starts: empty, or holding a thread that
\* someone else opened on line 5 of the file under review.
InitialStores == { <<>>, <<Thread(ThisFile, 5, "Bugs", "foreign", NoKey)>> }

\* the locals of improve_code before its loop, and the counters of the calls
SessionLocalsInit ==
  /\ iteration = 0
  /\ old_content = 0
  /\ current_content = 1
  /\ improved_content = 1
  /\ reviewer_analysis = <<>>
  /\ current_issues = <<>>
  /\ previous_issues = <<>>
  /\ issue_threads = <<>>
  /\ resolved_issues = {}
  /\ all_issues_resolved = FALSE
  /\ iterations = <<>>
  /\ final_result = NoResult
  /\ failures = 0
  /\ criticCalls = 0
  /\ fixerCalls = 0
  /\ keys_log = <<>>
  /\ marked_log = <<>>
  /\ stall = NoStall

\* no batch is running
BatchIdle ==
  /\ files = <<>>
  /\ file_index = 0
  /\ file_results = <<>>
  /\ file_log = <<>>

Init ==
  /\ impl \in {"root", "core"}
  /\ max_iterations \in 0..MaxIter
  /\ post_comments \in BOOLEAN
  /\ threads \in InitialStores
  /\ pc = "start"
  /\ SessionLocalsInit
  /\ BatchIdle

\* the sets of calls, among n, that may raise now
FailSets(n) == {F \in SUBSET (1..n) : Cardinality(F) <= MaxFailures - failures}
\* the one call, among n, that raises now; 0 for none
FailOne(n) == IF failures < MaxFailures THEN 0..n ELSE {0}

SetLast(log, x) == [log EXCEPT ![Len(log)] = x]

\* a loop that runs one pass too many
LoopContinuesOnePassMore(it, max) == it <= max

\* "for iteration in range(1, max_iterations + 1)": another pass follows pass it
LoopContinues(it, max) == it < max

\* a loop that does not notice that the Fixer changed nothing
NoChangeUnnoticed(improved, current) == FALSE

\* "if improved_content == current_content: ... break"
NoChange(improved, current) == improved = current

\* a result that reports every session as resolved
CoreAllResolvedAlways(issues) == TRUE

\* core: "all_issues_resolved": len(current_issues) == 0
CoreAllResolved(issues) == Len(issues) = 0

\* improve_code left by an exception
\* the same test with the flag ignored
PostingAlways(flag) == TRUE
\* root line 151, core line 125: "if post_comments:" before the comments of
\* the critique are posted
Posting(flag) == flag

Raised == pc \in {"raised_remote", "raised_critic", "raised_fixer", "raised_name_error"}

(***************************************************************************)
(* root: src/iterative_improvement_loop.py, improve_code                   *)
(***************************************************************************)
\* lines 87-104: get_pull_request (unguarded), the initial state, and the
\* entry into "for iteration in range(1, max_iterations + 1)"
RootStart ==
  /\ pc = "start" /\ impl = "root"
  /\ \/ /\ failures < MaxFailures
        /\ failures' = failures + 1
        /\ pc' = "raised_remote"
        /\ UNCHANGED iteration
     \/ /\ pc' = IF LoopContinues(0, max_iterations) THEN "critique" ELSE "close"
        /\ iteration' = IF LoopContinues(0, max_iterations) THEN 1 ELSE 0
        /\ UNCHANGED failures
  /\ UNCHANGED bvars
  /\ UNCHANGED <<impl, max_iterations, post_comments, old_content, current_content,
                 improved_content, reviewer_analysis, current_issues, previous_issues,
                 issue_threads, resolved_issues, all_issues_resolved, iterations,
                 final_result, threads, criticCalls, fixerCalls, keys_log,
                 marked_log, stall>>

\* lines 107-123: the Critic is invoked on (old_content, current_content) and
\* the issues and their keys are extracted from its critique
RootCritique ==
  /\ pc = "critique" /\ impl = "root"
  /\ criticCalls' = criticCalls + 1
  /\ \/ /\ pc' = "raised_critic"
        /\ UNCHANGED <<reviewer_analysis, current_issues, keys_log, marked_log>>
     \/ \E critique \in Critiques :
          /\ reviewer_analysis' = critique
          /\ current_issues' = _extract_issues(critique)
          /\ keys_log' = Append(keys_log, RootKeys(_extract_issues(critique)))
          /\ marked_log' = Append(marked_log, <<>>)
          /\ pc' = "reconcile"
  /\ UNCHANGED bvars
  /\ UNCHANGED <<impl, max_iterations, post_comments, iteration, old_content,
                 current_content, improved_content, previous_issues, issue_threads,
                 resolved_issues, all_issues_resolved, iterations, final_result,
                 threads, failures, fixerCalls, stall>>

\* lines 125-148: mark the issues that disappeared as resolved
RootReconcile ==
  /\ pc = "reconcile" /\ impl = "root"
  /\ IF iteration > 1 /\ post_comments
       THEN \E F \in FailSets(RootMarkCalls(issue_threads, RootKeys(current_issues),
                                            resolved_issues)) :
              LET r == RootMarkResolved(issue_threads, 0, RootKeys(current_issues),
                                        resolved_issues, threads, <<>>, F)
              IN /\ threads' = r.store
                 /\ resolved_issues' = r.resolved_issues
                 /\ marked_log' = SetLast(marked_log, r.marked)
                 /\ failures' = failures + Cardinality(F)
       ELSE UNCHANGED <<threads, resolved_issues, marked_log, failures>>
  /\ pc' = "post"
  /\ UNCHANGED bvars
  /\ UNCHANGED <<impl, max_iterations, post_comments, iteration, old_content,
                 current_content, improved_content, reviewer_analysis, current_issues,
                 previous_issues, issue_threads, all_issues_resolved, iterations,
                 final_result, criticCalls, fixerCalls, keys_log, stall>>

\* lines 150-188: post the comments, record the iteration, and stop with
\* all_issues_resolved = True when the critique holds no code suggestion
RootPost ==
  /\ pc = "post" /\ impl = "root"
  /\ IF Posting(post_comments)
       THEN \E F \in FailSets(RootPostCalls(reviewer_analysis)) :
              LET r == _post_review_comments_to_pr(threads, reviewer_analysis, F)
              IN /\ threads' = r.store
                 /\ issue_threads' = DictUpdate(issue_threads, r.issue_threads)
                 /\ failures' = failures + Cardinality(F)
       ELSE UNCHANGED <<threads, issue_threads, failures>>
  /\ LET suggestions == _extract_code_suggestions(reviewer_analysis)
     IN /\ iterations' = Append(iterations,
             [iteration |-> iteration, reviewer_analysis |-> reviewer_analysis,
              suggestions |-> suggestions, content |-> current_content,
              resolved_issues |-> resolved_issues])
        /\ IF suggestions = <<>>
             THEN all_issues_resolved' = TRUE /\ pc' = "close"
             ELSE all_issues_resolved' = all_issues_resolved /\ pc' = "fix"
  /\ UNCHANGED bvars
  /\ UNCHANGED <<impl, max_iterations, post_comments, iteration, old_content,
                 current_content, improved_content, reviewer_analysis, current_issues,
                 previous_issues, resolved_issues, final_result, criticCalls,
                 fixerCalls, keys_log, marked_log, stall>>

\* lines 190-199: the Fixer is invoked; unchanged content ends the loop,
\* changed content becomes current_content and the loop goes on.  The call
\* at line 191 hands _apply_suggestions (line 338) two of its four
\* parameters; the Fixer is taken at its interface: it raises, or it
\* returns content.
RootFix ==
  /\ pc = "fix" /\ impl = "root"
  /\ fixerCalls' = fixerCalls + 1
  /\ \/ /\ pc' = "raised_fixer"
        /\ UNCHANGED <<current_content, iteration, stall>>
     \/ \E content \in Contents :
          /\ stall' = IF content = current_content
                        THEN [stalled |-> TRUE, iteration |-> iteration,
                              critic |-> criticCalls, fixer |-> fixerCalls + 1]
                        ELSE stall
          /\ IF NoChange(content, current_content)
               THEN /\ pc' = "close"
                    /\ UNCHANGED <<current_content, iteration>>
               ELSE /\ current_content' = content
                    /\ IF LoopContinues(iteration, max_iterations)
                         THEN iteration' = iteration + 1 /\ pc' = "critique"
                         ELSE iteration' = iteration /\ pc' = "close"
  /\ UNCHANGED bvars
  /\ UNCHANGED <<impl, max_iterations, post_comments, old_content, improved_content,
                 reviewer_analysis, current_issues, previous_issues, issue_threads,
                 resolved_issues, all_issues_resolved, iterations, final_result,
                 threads, failures, criticCalls, keys_log, marked_log>>

\* lines 201-237: with all_issues_resolved, the remaining threads are set to
\* fixed; the block then ends in "print(... {remaining_issues} ...)", a name
\* that is never bound, so the session raises NameError
RootClose ==
  /\ pc = "close" /\ impl = "root"
  /\ IF all_issues_resolved /\ post_comments /\ issue_threads # <<>>
       THEN \E F \in FailSets(RootCloseCalls(issue_threads)) :
              LET r == RootCloseRemaining(issue_threads, resolved_issues, threads, F)
              IN /\ threads' = r.store
                 /\ resolved_issues' = r.resolved_issues
                 /\ failures' = failures + Cardinality(F)
                 /\ pc' = "raised_name_error"
       ELSE /\ pc' = "finish"
            /\ UNCHANGED <<threads, resolved_issues, failures>>
  /\ UNCHANGED bvars
  /\ UNCHANGED <<impl, max_iterations, post_comments, iteration, old_content,
                 current_content, improved_content, reviewer_analysis, current_issues,
                 previous_issues, issue_threads, all_issues_resolved, iterations,
                 final_result, criticCalls, fixerCalls, keys_log, marked_log, stall>>

\* lines 239-260: the final result is built, saved and returned
RootFinish ==
  /\ pc = "finish" /\ impl = "root"
  /\ final_result' =
       [returned |-> TRUE,
        iterations_completed |-> Len(iterations),
        all_issues_resolved |-> all_issues_resolved,
        iterations |-> iterations,
        final_content |-> current_content,
        threads |-> IF post_comments THEN DictValues(issue_threads) ELSE {}]
  /\ pc' = "done"
  /\ UNCHANGED bvars
  /\ UNCHANGED <<impl, max_iterations, post_comments, iteration, old_content,
                 current_content, improved_content, reviewer_analysis, current_issues,
                 previous_issues, issue_threads, resolved_issues, all_issues_resolved,
                 iterations, threads, failures, criticCalls, fixerCalls, keys_log,
                 marked_log, stall>>

(***************************************************************************)
(* core: src/core/iterative_improvement_loop.py, improve_code              *)
(***************************************************************************)
\* lines 94-109: get_pull_request (unguarded), the initial state, and the
\* entry into the loop
CoreStart ==
  /\ pc = "start" /\ impl = "core"
  /\ \/ /\ failures < MaxFailures
        /\ failures' = failures + 1
        /\ pc' = "raised_remote"
        /\ UNCHANGED iteration
     \/ /\ pc' = IF LoopContinues(0, max_iterations) THEN "critique" ELSE "finish"
        /\ iteration' = IF LoopContinues(0, max_iterations) THEN 1 ELSE 0
        /\ UNCHANGED failures
  /\ UNCHANGED bvars
  /\ UNCHANGED <<impl, max_iterations, post_comments, old_content, current_content,
                 improved_content, reviewer_analysis, current_issues, previous_issues,
                 issue_threads, resolved_issues, all_issues_resolved, iterations,
                 final_result, threads, criticCalls, fixerCalls, keys_log,
                 marked_log, stall>>

\* lines 112-121: the Critic is invoked on (old_content, current_content)
CoreCritique ==
  /\ pc = "critique" /\ impl = "core"
  /\ criticCalls' = criticCalls + 1
  /\ \/ /\ pc' = "raised_critic"
        /\ UNCHANGED <<reviewer_analysis, keys_log, marked_log>>
     \/ \E critique \in Critiques :
          /\ reviewer_analysis' = critique
          /\ keys_log' = Append(keys_log, CoreKeys(core_extract_issues(critique)))
          /\ marked_log' = Append(marked_log, <<>>)
          /\ pc' = "post"
  /\ UNCHANGED bvars
  /\ UNCHANGED <<impl, max_iterations, post_comments, iteration, old_content,
                 current_content, improved_content, current_issues, previous_issues,
                 issue_threads, resolved_issues, all_issues_resolved, iterations,
                 final_result, threads, failures, fixerCalls, stall>>

\* lines 123-157: post the comments (a remote call that raises ends the
\* session), extract the issues, record the iteration, and stop when the
\* critique says "No suggestions" or holds no issue
CorePost ==
  /\ pc = "post" /\ impl = "core"
  /\ \E fail \in (IF Posting(post_comments)
                    THEN FailOne(CorePostCalls(reviewer_analysis)) ELSE {0}) :
       LET r == IF Posting(post_comments)
                  THEN core_post_review_comments_to_pr(threads, reviewer_analysis, fail)
                  ELSE [store |-> threads, thread_map |-> <<>>, raised |-> FALSE]
           issues == core_extract_issues(reviewer_analysis)
       IN /\ threads' = r.store
          /\ failures' = IF fail = 0 THEN failures ELSE failures + 1
          /\ IF r.raised
               THEN /\ pc' = "raised_remote"
                    /\ UNCHANGED <<issue_threads, current_issues, iterations>>
               ELSE /\ issue_threads' = DictUpdate(issue_threads, r.thread_map)
                    /\ current_issues' = issues
                    /\ iterations' = Append(iterations,
                         [iteration |-> iteration, reviewer_analysis |-> reviewer_analysis,
                          issues |-> issues, threads |-> r.thread_map])
                    /\ pc' = IF HasNoSuggestionsPhrase(reviewer_analysis) \/ issues = <<>>
                               THEN "finish" ELSE "fix"
  /\ UNCHANGED bvars
  /\ UNCHANGED <<impl, max_iterations, post_comments, iteration, old_content,
                 current_content, improved_content, reviewer_analysis, previous_issues,
                 resolved_issues, all_issues_resolved, final_result, criticCalls,
                 fixerCalls, keys_log, marked_log, stall>>

\* lines 159-165: the Fixer is invoked; unchanged content ends the loop
CoreFix ==
  /\ pc = "fix" /\ impl = "core"
  /\ fixerCalls' = fixerCalls + 1
  /\ \/ /\ pc' = "raised_fixer"
        /\ UNCHANGED <<improved_content, stall>>
     \/ \E content \in Contents :
          /\ improved_content' = content
          /\ stall' = IF content = current_content
                        THEN [stalled |-> TRUE, iteration |-> iteration,
                              critic |-> criticCalls, fixer |-> fixerCalls + 1]
                        ELSE stall
          /\ pc' = IF NoChange(content, current_content) THEN "finish" ELSE "mark"
  /\ UNCHANGED bvars
  /\ UNCHANGED <<impl, max_iterations, post_comments, iteration, old_content,
                 current_content, reviewer_analysis, current_issues, previous_issues,
                 issue_threads, resolved_issues, all_issues_resolved, iterations,
                 final_result, threads, failures, criticCalls, keys_log, marked_log>>

\* lines 167-205: mark the previous issues that disappeared as resolved (a
\* remote call that raises ends the session), then move to the next pass
CoreMark ==
  /\ pc = "mark" /\ impl = "core"
  /\ \E fail \in (IF post_comments /\ previous_issues # <<>>
                    THEN FailOne(CoreMarkCalls(previous_issues, current_issues, issue_threads))
                    ELSE {0}) :
       LET r == IF post_comments /\ previous_issues # <<>>
                  THEN CoreMarkResolved(previous_issues, 0, current_issues,
                                        issue_threads, threads, <<>>, fail)
                  ELSE [store |-> threads, marked |-> <<>>, raised |-> FALSE]
       IN /\ threads' = r.store
          /\ marked_log' = SetLast(marked_log, r.marked)
          /\ failures' = IF fail = 0 THEN failures ELSE failures + 1
          /\ IF r.raised
               THEN /\ pc' = "raised_remote"
                    /\ UNCHANGED <<old_content, current_content, previous_issues, iteration>>
               ELSE /\ old_content' = current_content
                    /\ current_content' = improved_content
                    /\ previous_issues' = current_issues
                    /\ IF LoopContinues(iteration, max_iterations)
                         THEN iteration' = iteration + 1 /\ pc' = "critique"
                         ELSE iteration' = iteration /\ pc' = "finish"
  /\ UNCHANGED bvars
  /\ UNCHANGED <<impl, max_iterations, post_comments, improved_content,
                 reviewer_analysis, current_issues, issue_threads, resolved_issues,
                 all_issues_resolved, iterations, final_result, criticCalls,
                 fixerCalls, keys_log, stall>>

\* lines 207-221: the final result is built, saved and returned; when the
\* loop body never ran, current_issues is not bound and the session raises
CoreFinish ==
  /\ pc = "finish" /\ impl = "core"
  /\ IF iteration = 0
       THEN pc' = "raised_name_error" /\ UNCHANGED final_result
       ELSE /\ final_result' =
                 [returned |-> TRUE,
                  iterations_completed |-> Len(iterations),
                  all_issues_resolved |-> CoreAllResolved(current_issues),
                  iterations |-> iterations,
                  final_content |-> current_content,
                  threads |-> DictValues(issue_threads)]
            /\ pc' = "done"
  /\ UNCHANGED bvars
  /\ UNCHANGED <<impl, max_iterations, post_comments, iteration, old_content,
                 current_content, improved_content, reviewer_analysis, current_issues,
                 previous_issues, issue_threads, resolved_issues, all_issues_resolved,
                 iterations, threads, failures, criticCalls, fixerCalls, keys_log,
                 marked_log, stall>>

Next ==
  \/ RootStart \/ RootCritique \/ RootReconcile \/ RootPost \/ RootFix
  \/ RootClose \/ RootFinish
  \/ CoreStart \/ CoreCritique \/ CorePost \/ CoreFix \/ CoreMark \/ CoreFinish

Spec == Init /\ [][Next]_vars

(***************************************************************************)
(* Batch processing of a pull request: process_pull_request of root        *)
(* (src/iterative_improvement_loop.py) and of BatchImprovementProcessor    *)
(* (core).  A changed file is [path, kind]; kind "text" is a file that is   *)
(* processed, kind "skipped" one that the filter leaves out (root: not a   *)
(* text file or too large; core: not an edit, or a file to skip).  The     *)
(* session of a file is taken at its interface: improve_code returns a     *)
(* result or raises.                                                       *)
(***************************************************************************)
\* largest number of changed files in a pull request
MaxFiles == 3

FileKinds == {"text", "skipped"}

\* the change lists of at most MaxFiles files, with distinct paths 1, 2, ...
ChangeLists ==
  UNION {{[i \in 1..n |-> [path |-> i, kind |-> kinds[i]]] : kinds \in [1..n -> FileKinds]}
         : n \in 0..MaxFiles}

\* what the session of one file does: it raises, or it returns a result
SessionOutcomes ==
  {[raised |-> TRUE, all_issues_resolved |-> FALSE],
   [raised |-> FALSE, all_issues_resolved |-> FALSE],
   [raised |-> FALSE, all_issues_resolved |-> TRUE]}

\* root: filtered_files
RECURSIVE RootFilteredFiles(_)
RootFilteredFiles(fs) ==
  IF fs = <<>> THEN <<>>
  ELSE IF Head(fs).kind = "text" THEN <<Head(fs)>> \o RootFilteredFiles(Tail(fs))
  ELSE RootFilteredFiles(Tail(fs))

\* the entry a file gets in the batch result
FileEntry(path, outcome) ==
  IF outcome.raised
    THEN [file_path |-> path, error |-> TRUE, all_issues_resolved |-> FALSE]
    ELSE [file_path |-> path, error |-> FALSE,
          all_issues_resolved |-> outcome.all_issues_resolved]

\* a batch that gives up at the first file whose session raises
NextFileStopsOnError(index, count, raised) == IF raised THEN count + 1 ELSE index + 1

\* the for loop over the files: after a file, whether its session returned or
\* raised (the except branch only records the error), comes the next file
NextFile(index, count, raised) == index + 1

BatchInit ==
  /\ impl \in {"root", "core"}
  /\ max_iterations = MaxIter
  /\ post_comments = TRUE
  /\ threads = <<>>
  /\ pc = "batch_start"
  /\ SessionLocalsInit
  /\ files \in ChangeLists
  /\ file_index = 0
  /\ file_results = <<>>
  /\ file_log = <<>>

\* the variables of one session, which a batch step leaves alone
svars == <<impl, max_iterations, post_comments, iteration, old_content,
           current_content, improved_content, reviewer_analysis, current_issues,
           previous_issues, issue_threads, resolved_issues, all_issues_resolved,
           iterations, final_result, threads, failures, criticCalls, fixerCalls,
           keys_log, marked_log, stall>>

\* root lines 601-624: the pull request, its latest iteration and its changed
\* files are fetched (unguarded remote calls; no iteration is a ValueError),
\* and the files are filtered
RootBatchStart ==
  /\ pc = "batch_start" /\ impl = "root"
  /\ \/ pc' = "batch_raised" /\ UNCHANGED file_index
     \/ pc' = "batch_file" /\ file_index' = 1
  /\ UNCHANGED <<files, file_results, file_log>>
  /\ UNCHANGED svars

\* root lines 627-658: one file of filtered_files is processed inside
\* try/except
RootBatchFile ==
  /\ pc = "batch_file" /\ impl = "root"
  /\ file_index <= Len(RootFilteredFiles(files))
  /\ \E outcome \in SessionOutcomes :
       LET file_info == RootFilteredFiles(files)[file_index]
       IN /\ file_results' = Append(file_results, FileEntry(file_info.path, outcome))
          /\ file_log' = Append(file_log, [file_path |-> file_info.path,
                                           raised |-> outcome.raised])
          /\ file_index' = NextFile(file_index, Len(RootFilteredFiles(files)),
                                    outcome.raised)
  /\ UNCHANGED <<pc, files>>
  /\ UNCHANGED svars

\* root lines 660-676: the batch result is built, saved and returned
RootBatchFinish ==
  /\ pc = "batch_file" /\ impl = "root"
  /\ file_index > Len(RootFilteredFiles(files))
  /\ pc' = "batch_done"
  /\ UNCHANGED bvars
  /\ UNCHANGED svars

\* core lines 475-487: the pull request, its latest iteration and its changes
\* are fetched (unguarded remote calls)
CoreBatchStart ==
  /\ pc = "batch_start" /\ impl = "core"
  /\ \/ pc' = "batch_raised" /\ UNCHANGED file_index
     \/ pc' = "batch_file" /\ file_index' = 1
  /\ UNCHANGED <<files, file_results, file_log>>
  /\ UNCHANGED svars

\* core lines 488-521: one change is looked at; an edit that is not skipped
\* has its contents fetched and its session run inside try/except
CoreBatchFile ==
  /\ pc = "batch_file" /\ impl = "core"
  /\ file_index <= Len(files)
  /\ IF files[file_index].kind = "skipped"
       THEN /\ file_index' = file_index + 1
            /\ UNCHANGED <<file_results, file_log>>
       ELSE \E outcome \in SessionOutcomes :
              /\ file_results' = Append(file_results,
                                        FileEntry(files[file_index].path, outcome))
              /\ file_log' = Append(file_log, [file_path |-> files[file_index].path,
                                               raised |-> outcome.raised])
              /\ file_index' = NextFile(file_index, Len(files), outcome.raised)
  /\ UNCHANGED <<pc, files>>
  /\ UNCHANGED svars

\* core line 523: the results are returned
CoreBatchFinish ==
  /\ pc = "batch_file" /\ impl = "core"
  /\ file_index > Len(files)
  /\ pc' = "batch_done"
  /\ UNCHANGED bvars
  /\ UNCHANGED svars

BatchNext ==
  \/ RootBatchStart \/ RootBatchFile \/ RootBatchFinish
  \/ CoreBatchStart \/ CoreBatchFile \/ CoreBatchFinish

BatchSpec == BatchInit /\ [][BatchNext]_vars

(***************************************************************************)
(* The critique parser on its own: _extract_issues of both implementations *)
(* applied to a critique text.                                             *)
(***************************************************************************)
\* longest critique text, in lines
MaxLen == 4

\* the lines a critique text is made of
ParseLines ==
  { Hdr("Bugs"), Hdr("Style"), Bul("a", 12), Bul("c", 5), Bul("d", 0),
    BulLines("e", 7), Txt("more", 0), Txt("see", 9) }

\* the critique texts of at most MaxLen lines
CritiqueTexts == UNION {[1..n -> ParseLines] : n \in 0..MaxLen}

ParseInit ==
  /\ impl \in {"root", "core"}
  /\ max_iterations = MaxIter
  /\ post_comments = FALSE
  /\ threads = <<>>
  /\ pc = "parse"
  /\ reviewer_analysis \in CritiqueTexts
  /\ iteration = 0
  /\ old_content = 0
  /\ current_content = 1
  /\ improved_content = 1
  /\ current_issues = <<>>
  /\ previous_issues = <<>>
  /\ issue_threads = <<>>
  /\ resolved_issues = {}
  /\ all_issues_resolved = FALSE
  /\ iterations = <<>>
  /\ final_result = NoResult
  /\ failures = 0
  /\ criticCalls = 0
  /\ fixerCalls = 0
  /\ keys_log = <<>>
  /\ marked_log = <<>>
  /\ stall = NoStall
  /\ BatchIdle

\* the variables a parse leaves alone
pvars == <<impl, max_iterations, post_comments, iteration, old_content,
           current_content, improved_content, reviewer_analysis,
           previous_issues, issue_threads, resolved_issues, all_issues_resolved,
           iterations, final_result, threads, failures, criticCalls, fixerCalls,
           keys_log, marked_log, stall>>

\* root: issues = self._extract_issues(reviewer_analysis)
RootParse ==
  /\ pc = "parse" /\ impl = "root"
  /\ current_issues' = _extract_issues(reviewer_analysis)
  /\ pc' = "parsed"
  /\ UNCHANGED pvars
  /\ UNCHANGED bvars

\* core: current_issues = self._extract_issues(reviewer_analysis)
CoreParse ==
  /\ pc = "parse" /\ impl = "core"
  /\ current_issues' = core_extract_issues(reviewer_analysis)
  /\ pc' = "parsed"
  /\ UNCHANGED pvars
  /\ UNCHANGED bvars

ParseNext == RootParse \/ CoreParse

ParserSpec == ParseInit /\ [][ParseNext]_vars

(***************************************************************************)
(* The loop without a remote store: IterativeLoopSimulator of              *)
(* src/test_ollama_iterative_loop.py (impl = "sim").  The reviewer's        *)
(* analysis is free text; the simulator only counts the indicator words    *)
(* in it ("bug", "issue", "fix", ...), so an analysis is modelled by the   *)
(* number of indicator words it holds.                                     *)
(***************************************************************************)
\* most indicator words in an analysis
MaxIndicators == 2

\* _count_issues: the number of indicator words, capped at 20
_count_issues(analysis) == IF analysis < 20 THEN analysis ELSE 20

SimInit ==
  /\ impl = "sim"
  /\ max_iterations \in 0..MaxIter
  /\ post_comments = FALSE
  /\ threads = <<>>
  /\ pc = "sim_start"
  /\ reviewer_analysis = 0
  /\ iteration = 0
  /\ old_content = 0
  /\ current_content = 1
  /\ improved_content = 1
  /\ current_issues = <<>>
  /\ previous_issues = <<>>
  /\ issue_threads = <<>>
  /\ resolved_issues = {}
  /\ all_issues_resolved = FALSE
  /\ iterations = <<>>
  /\ final_result = NoResult
  /\ failures = 0
  /\ criticCalls = 0
  /\ fixerCalls = 0
  /\ keys_log = <<>>
  /\ marked_log = <<>>
  /\ stall = NoStall
  /\ BatchIdle

\* what the simulator never touches
simvars == <<impl, max_iterations, post_comments, old_content, current_issues,
             previous_issues, issue_threads, resolved_issues, threads, failures,
             keys_log, marked_log, stall>>

\* lines 46-50: the initial state and the entry into the loop
SimStart ==
  /\ pc = "sim_start"
  /\ IF max_iterations >= 1
       THEN iteration' = 1 /\ pc' = "sim_review"
       ELSE iteration' = iteration /\ pc' = "sim_finish"
  /\ UNCHANGED <<current_content, improved_content, reviewer_analysis,
                 all_issues_resolved, iterations, final_result, criticCalls,
                 fixerCalls>>
  /\ UNCHANGED simvars
  /\ UNCHANGED bvars

\* lines 53-70: the reviewer analyses the code; no issue ends the loop
SimReview ==
  /\ pc = "sim_review"
  /\ criticCalls' = criticCalls + 1
  /\ \/ /\ pc' = "raised_critic"
        /\ UNCHANGED <<reviewer_analysis, all_issues_resolved>>
     \/ \E analysis \in 0..MaxIndicators :
          /\ reviewer_analysis' = analysis
          /\ IF _count_issues(analysis) = 0
               THEN all_issues_resolved' = TRUE /\ pc' = "sim_finish"
               ELSE all_issues_resolved' = all_issues_resolved /\ pc' = "sim_code"
  /\ UNCHANGED <<iteration, current_content, improved_content, iterations,
                 final_result, fixerCalls>>
  /\ UNCHANGED simvars
  /\ UNCHANGED bvars

\* lines 72-109: the coder answers (its code, or the current code when no
\* code block is found), the record of the iteration is appended and the
\* answer becomes the current code
SimCode ==
  /\ pc = "sim_code"
  /\ fixerCalls' = fixerCalls + 1
  /\ \/ /\ pc' = "raised_fixer"
        /\ UNCHANGED <<improved_content, iterations, current_content, iteration>>
     \/ \E improved_code \in Contents :
          /\ improved_content' = improved_code
          /\ iterations' = Append(iterations,
               [iteration |-> iteration, reviewer_analysis |-> reviewer_analysis,
                improved_code |-> improved_code,
                issues_count |-> _count_issues(reviewer_analysis)])
          /\ current_content' = improved_code
          /\ IF LoopContinues(iteration, max_iterations)
               THEN iteration' = iteration + 1 /\ pc' = "sim_review"
               ELSE iteration' = iteration /\ pc' = "sim_finish"
  /\ UNCHANGED <<reviewer_analysis, all_issues_resolved, final_result, criticCalls>>
  /\ UNCHANGED simvars
  /\ UNCHANGED bvars

\* lines 111-122: the results
SimFinish ==
  /\ pc = "sim_finish"
  /\ final_result' =
       [returned |-> TRUE,
        iterations_completed |-> Len(iterations),
        all_issues_resolved |-> all_issues_resolved,
        iterations |-> iterations,
        final_content |-> current_content,
        threads |-> {}]
  /\ pc' = "done"
  /\ UNCHANGED <<iteration, current_content, improved_content, reviewer_analysis,
                 all_issues_resolved, iterations, criticCalls, fixerCalls>>
  /\ UNCHANGED simvars
  /\ UNCHANGED bvars

SimNext == SimStart \/ SimReview \/ SimCode \/ SimFinish

SimSpec == SimInit /\ [][SimNext]_vars

(***************************************************************************)
(* Two sessions of one pull request against the same remote store.  The    *)
(* sessions share nothing but the store, so the session of ThisFile is     *)
(* run as above and the session of the other file is taken at what it does *)
(* to the store: it creates threads (a summary and issue threads of its    *)
(* file; core's summary thread carries no file) at any moment between two  *)
(* steps of this session; a call is placed right before a step of this    *)
(* session that calls the store, the steps in between do not observe the   *)
(* store.  Its comments and status changes on its own                      *)
(* threads are left out: this session reads the file path of a listed      *)
(* thread before anything else and skips the threads of other files.       *)
(* Both sessions run the same code: what holds for this session against    *)
(* such a neighbour holds for the neighbour against this session.          *)
(***************************************************************************)
\* most threads the other session creates
MaxOtherThreads == 1

OtherFile == "g"

\* the threads the session of the other file creates, running the same
\* implementation: its summary thread (root: on its file, core: with no
\* file) and the thread of an issue on line 5
OtherThreads ==
  { IF impl = "root" THEN Thread(OtherFile, 0, "", "other", NoKey)
                     ELSE Thread("", 0, "", "other", NoKey),
    Thread(OtherFile, 5, "Bugs", "other", NoKey) }

OthersIn(store) == {t \in 1..Len(store) : store[t].kind = "other"}

\* max_iterations of the session that has a neighbour
PairIterations == 2

PairInit ==
  /\ impl \in {"root", "core"}
  /\ max_iterations = PairIterations
  /\ post_comments = TRUE
  /\ threads = <<>>
  /\ pc = "start"
  /\ SessionLocalsInit
  /\ BatchIdle

\* one call of the other session to the store
OtherSession ==
  /\ pc \in {"reconcile", "post", "mark", "close"}
  /\ Cardinality(OthersIn(threads)) < MaxOtherThreads
  /\ \E thread \in OtherThreads : threads' = add_pull_request_thread(threads, thread)
  /\ UNCHANGED <<impl, max_iterations, post_comments, pc, iteration, old_content,
                 current_content, improved_content, reviewer_analysis, current_issues,
                 previous_issues, issue_threads, resolved_issues, all_issues_resolved,
                 iterations, final_result, failures, criticCalls, fixerCalls,
                 keys_log, marked_log, stall>>
  /\ UNCHANGED bvars

PairNext == Next \/ OtherSession

PairSpec == PairInit /\ [][PairNext]_vars

(***************************************************************************)
(* Properties.                                                             *)
(***************************************************************************)
Returned == final_result.returned

FirstIssuesEmpty == Len(keys_log) >= 1 /\ keys_log[1] = {}
LastIssuesEmpty == Len(keys_log) >= 1 /\ keys_log[Len(keys_log)] = {}

\* C1: a session performs at most max_iterations critique rounds: the number
\* of Critic invocations never exceeds max_iterations, whether or not
\* issues persist.
C1_CriticCallsBounded == criticCalls <= max_iterations

\* C1 witness: a session with the largest bound returned after that many
\* critique rounds, with issues left in its last critique.
C1_Witness ==
  /\ Returned /\ max_iterations = MaxIter /\ criticCalls = MaxIter
  /\ ~LastIssuesEmpty

\* C2: when the first critique holds no issue, the Fixer is never invoked
\* and the session returns all_resolved = true, iterations_completed = 1.
C2_EmptyCritiqueShortCircuit ==
  FirstIssuesEmpty =>
    /\ fixerCalls = 0
    /\ Returned => /\ final_result.all_issues_resolved
                   /\ final_result.iterations_completed = 1

\* C3: once the Fixer has returned the content it was given, neither the
\* Critic nor the Fixer is invoked again, and the session returns at that
\* iteration with all_resolved = false.
C3_StallEndsSession ==
  stall.stalled =>
    /\ criticCalls = stall.critic
    /\ fixerCalls = stall.fixer
    /\ pc \notin {"critique", "reconcile", "post", "fix", "mark"}
    /\ Returned => /\ ~final_result.all_issues_resolved
                   /\ final_result.iterations_completed = stall.iteration

\* C3 witness: a session that stalled in its second iteration has returned.
C3_Witness == stall.stalled /\ stall.iteration = 2 /\ Returned

\* the threads the session created for the issue key
ThreadsCreatedFor(key) ==
  {i \in 1..Len(threads) : threads[i].kind = "issue" /\ threads[i].key = key}

IssueKeysSeen == UNION {keys_log[k] : k \in 1..Len(keys_log)}

\* C4: ensure_thread is idempotent per issue key: the session never creates
\* two threads for one key, and the handle the ledger holds for a key is the
\* one thread that was created for that key, on which every later call for
\* the key posts its follow-up.
C4_OneThreadPerKey ==
  /\ \A key \in IssueKeysSeen : Cardinality(ThreadsCreatedFor(key)) <= 1
  /\ \A e \in 1..Len(issue_threads) :
       ThreadsCreatedFor(issue_threads[e].key) = {issue_threads[e].tid}

\* C5: resolution is monotone: the remote store receives at most one
\* set-status("fixed") call and at most one confirmation comment for a
\* thread in a session, whatever later reconciliations and the closing of
\* the remaining threads do.
C5_FixedAtMostOnce ==
  \A i \in 1..Len(threads) : threads[i].fixes <= 1 /\ threads[i].confirms <= 1

\* the keys for which mark_resolved was invoked in iteration k
Marked(k) == {marked_log[k][i] : i \in 1..Len(marked_log[k])}

\* iteration k is past its reconciliation: a later iteration has begun, or
\* the loop has been left
Reconciled(k) ==
  \/ k < Len(keys_log)
  \/ pc \in {"close", "finish", "done", "raised_name_error"}

\* C6: with comment posting on and no remote call failing, the keys marked
\* resolved in iteration k >= 2 are exactly the keys of iteration k-1 that
\* are not keys of iteration k (also when iteration k has no issue), and no
\* key is marked in iteration 1.
C6_MarkedIsPreviousMinusCurrent ==
  (post_comments /\ failures = 0) =>
    \A k \in 1..Len(keys_log) :
      Reconciled(k) =>
        Marked(k) = IF k = 1 THEN {} ELSE keys_log[k - 1] \ keys_log[k]

\* C7: in every step of a session the handles recorded in the ledger are
\* kept (the set never shrinks) and a key that has a handle keeps that
\* handle.
C7_LedgerOnlyGrows ==
  [][ /\ DictValues(issue_threads) \subseteq DictValues(issue_threads')
      /\ \A e \in 1..Len(issue_threads) :
           /\ DictHas(issue_threads', issue_threads[e].key)
           /\ DictGet(issue_threads', issue_threads[e].key) = issue_threads[e].tid
    ]_vars

C9_AllResolvedIffNoIssues ==
  (Returned /\ Len(keys_log) >= 1) =>
    (final_result.all_issues_resolved <=> LastIssuesEmpty)

\* every thread recorded in the ledger has status fixed
LedgerAllFixed ==
  \A e \in 1..Len(issue_threads) : threads[issue_threads[e].tid].status = "fixed"

\* C10: with comment posting on and no remote call failing, a session that
\* ends with all_resolved = true has every ledger thread set to fixed when
\* it returns, and it does return: closing the remaining threads is not
\* followed by an exception.
C10_CloseAllRemainingThenReturn ==
  (post_comments /\ failures = 0) =>
    /\ (Returned /\ final_result.all_issues_resolved) => LedgerAllFixed
    /\ all_issues_resolved => pc # "raised_name_error"

\* C11: a thread-store call that raises inside the loop never ends the
\* session: improve_code is not left by the exception of a remote call made
\* after the loop was entered.
C11_RemoteFailureNeverAborts == ~(pc = "raised_remote" /\ iteration >= 1)

\* C12: a key is recorded as resolved only in a step in which its thread
\* received set-status fixed: when that remote call fails the key stays
\* open in the ledger, so that marking it is tried again later.
C12_FailedMarkStaysOpen ==
  [][ \A e \in 1..Len(issue_threads) :
        (issue_threads[e].key \notin resolved_issues
           /\ issue_threads[e].key \in resolved_issues')
          => threads'[issue_threads[e].tid].fixes > threads[issue_threads[e].tid].fixes
    ]_vars

\* C13: an exception of the Critic or of the Fixer does not leave
\* improve_code: the session ends with a final result instead.
C13_BackendFailureEndsWithResult == pc \notin {"raised_critic", "raised_fixer"}

\* the paths of the changed files that the filter does not leave out
PathsToProcess == {files[i].path : i \in {j \in 1..Len(files) : files[j].kind = "text"}}

\* C14: in a batch, the result has one entry per processed file, in order,
\* an error entry exactly for the files whose session raised; and when the
\* batch returns, every file that was not filtered out has its entry,
\* whatever happened to the files before it.
C14_BatchSurvivesFileFailure ==
  /\ Len(file_results) = Len(file_log)
  /\ \A i \in 1..Len(file_results) :
       /\ file_results[i].file_path = file_log[i].file_path
       /\ file_results[i].error = file_log[i].raised
       /\ \A j \in 1..Len(file_results) :
            file_results[i].file_path = file_results[j].file_path => i = j
  /\ pc = "batch_done" =>
       {file_results[i].file_path : i \in 1..Len(file_results)} = PathsToProcess

\* C14 witness: a batch returned in which the session of one file raised and
\* the session of a later file returned its result.
C14_Witness ==
  /\ pc = "batch_done"
  /\ \E i, j \in 1..Len(file_results) :
       i < j /\ file_results[i].error /\ ~file_results[j].error

\* C15: with max_iterations <= 0 the session is refused before its loop: it
\* makes no Critic and no Fixer call, returns no result, and does not end
\* in the NameError of a result built from a loop that never ran.
C15_NonPositiveBoundIsRefused ==
  max_iterations <= 0 =>
    /\ criticCalls = 0 /\ fixerCalls = 0
    /\ ~Returned
    /\ pc # "raised_name_error"

\* the keys that this step marks resolved
NewlyMarked ==
  IF Len(marked_log') = Len(marked_log) /\ Len(marked_log) >= 1
    THEN Marked(Len(marked_log))' \ Marked(Len(marked_log))
    ELSE {}

\* C16: a key is marked resolved only when the ledger already holds, from
\* an earlier iteration, an entry for it whose handle is a thread of the
\* store: the key was an issue of an earlier iteration and its ledger entry
\* was there before the step that marks it.
C16_MarkedAfterThreadRecorded ==
  [][ \A key \in NewlyMarked :
        /\ DictHas(issue_threads, key)
        /\ DictGet(issue_threads, key) \in 1..Len(threads)
        /\ \E j \in 1..(Len(keys_log) - 1) : key \in keys_log[j]
    ]_vars

\* C16 witness: a key was marked resolved in the third iteration of a
\* session that returned.
C16_Witness ==
  /\ Returned /\ Len(marked_log) >= 3 /\ Marked(3) # {}

\* the (line, category) identities of the issues of iteration k
IssueIdentities(k) ==
  IF impl = "root" THEN keys_log[k]
  ELSE IF k \in 1..Len(iterations)
    THEN {<<iterations[k].issues[i].line, iterations[k].issues[i].section>> :
            i \in 1..Len(iterations[k].issues)}
  ELSE {}

\* the identities of the issues marked resolved in iteration k >= 2
MarkedIdentities(k) ==
  IF impl = "root" THEN Marked(k)
  ELSE {<<iterations[k - 1].issues[i].line, iterations[k - 1].issues[i].section>> :
          i \in {j \in 1..Len(iterations[k - 1].issues) :
                   CoreKey(iterations[k - 1].issues[j]) \in Marked(k)}}

\* the identities present in iteration k - 1 and in iteration k
Persisting(k) == IssueIdentities(k - 1) \cap IssueIdentities(k)

\* the identities of the issue threads this step creates
NewThreadIdentities ==
  {<<threads'[i].line, threads'[i].sec>> :
     i \in {j \in (Len(threads) + 1)..Len(threads') : threads'[j].kind = "issue"}}

\* the identities that persist into the latest iteration
PersistingNow ==
  IF Len(keys_log) >= 2 THEN Persisting(Len(keys_log)) ELSE {}

\* no persisting identity is marked resolved in the latest iteration
PersistingNotMarked ==
  Len(keys_log) >= 2 => MarkedIdentities(Len(keys_log)) \cap PersistingNow = {}

\* C17: with comment posting on and no remote call failing, an issue whose
\* (line, category) is the same in iterations k - 1 and k persists whatever
\* its text: no step marks it resolved in iteration k and no step of
\* iteration k creates a thread for it.
C17_SameIdentityPersists ==
  [][ (post_comments /\ failures' = 0) =>
        /\ PersistingNotMarked'
        /\ NewThreadIdentities \cap PersistingNow' = {}
    ]_vars

\* a critique text made of headers followed by bullet items, each bullet
\* with a reference written "line <n>"
HeadersAndBullets(text) ==
  /\ Len(text) >= 1
  /\ text[1].k = "hdr"
  /\ \A i \in 1..Len(text) :
       text[i].k = "hdr" \/ (text[i].k = "bul" /\ text[i].form = "line")

\* the places of the bullets of a text, in order of appearance
BulletPlaces(text) ==
  SelectSeq([i \in 1..Len(text) |-> i], LAMBDA i : text[i].k = "bul")

\* the category of the nearest header before place i
NearestHeader(text, i) ==
  text[Max({j \in 1..(i - 1) : text[j].k = "hdr"})].s

\* C18: for a critique text made of headers followed by bullet items, the
\* parser returns one issue per bullet, in order of appearance, each with the
\* category of the nearest preceding header and the integer of its
\* "line <n>" reference; a header produces no issue.
C18_OneIssuePerBullet ==
  (pc = "parsed" /\ HeadersAndBullets(reviewer_analysis)) =>
    LET places == BulletPlaces(reviewer_analysis)
    IN /\ Len(current_issues) = Len(places)
       /\ \A k \in 1..Len(places) :
            /\ current_issues[k].section = NearestHeader(reviewer_analysis, places[k])
            /\ current_issues[k].line = reviewer_analysis[places[k]].n

\* the bullet at place i of a text, with its continuation lines, holds no
\* line reference
NoLineReference(text, i) ==
  /\ text[i].k = "bul"
  /\ \A j \in i..Len(text) :
       (\A m \in (i + 1)..j : text[m].k \notin {"bul", "hdr"}) => text[j].form = "none"

\* the bullets without a line reference that stand under a header
UnreferencedBullets(text) ==
  {i \in 1..Len(text) : /\ NoLineReference(text, i)
                        /\ \E j \in 1..(i - 1) : text[j].k = "hdr"}

\* the line numbers written in the critiques the session has received
ReferencedLines ==
  LET texts == {reviewer_analysis} \cup
               {iterations[k].reviewer_analysis : k \in 1..Len(iterations)}
  IN UNION {{text[i].n : i \in {j \in 1..Len(text) : text[j].form # "none"}}
            : text \in texts}

\* no key, no ledger entry, no thread and no resolution for an issue without
\* a line reference: every line that is tracked was written in a critique
UnreferencedNotTracked ==
  /\ \A k \in 1..Len(keys_log) : \A key \in keys_log[k] : key[1] \in ReferencedLines
  /\ \A e \in 1..Len(issue_threads) : issue_threads[e].key[1] \in ReferencedLines
  /\ \A t \in 1..Len(threads) :
       threads[t].kind = "issue" => threads[t].line \in ReferencedLines
  /\ \A k \in 1..Len(marked_log) : \A key \in Marked(k) : key[1] \in ReferencedLines

\* the record of an iteration lists the issues without a line reference,
\* with line None (0)
UnreferencedListed ==
  \A k \in 1..Len(iterations) :
    LET rec == iterations[k]
        text == rec.reviewer_analysis
    IN \A i \in UnreferencedBullets(text) :
         /\ "issues" \in DOMAIN rec
         /\ \E j \in 1..Len(rec.issues) :
              rec.issues[j].line = 0 /\ Head(rec.issues[j].text) = text[i].t

\* C19: an issue whose text holds no line reference has line None: it gets
\* no key, no thread is created for it and it is never marked resolved, and
\* the record of its iteration lists it among the issues.
C19_NoLineIssueListedNotTracked ==
  UnreferencedNotTracked /\ UnreferencedListed

\* the threads this step creates for an issue key
NewThreadsFor(key) ==
  {t \in (Len(threads) + 1)..Len(threads') :
     threads'[t].kind = "issue" /\ threads'[t].key = key}

\* a step that posts the comments of an iteration with no remote call failing
PostsComments ==
  /\ pc = "post" /\ post_comments
  /\ failures' = failures
  /\ pc' # "raised_remote"

\* C20: when the comments of an iteration are posted, the ledger alone
\* decides: a key with a ledger entry gets a follow-up on the recorded
\* thread and no new thread, a key without one gets a new thread, whatever
\* threads the remote store lists.
C20_LedgerAloneDecides ==
  [][ PostsComments =>
        \A key \in keys_log[Len(keys_log)] :
          IF DictHas(issue_threads, key)
            THEN /\ NewThreadsFor(key) = {}
                 /\ threads'[DictGet(issue_threads, key)].followups >
                      threads[DictGet(issue_threads, key)].followups
            ELSE NewThreadsFor(key) # {}
    ]_vars

\* the store received, in this step, the creation of thread h or a follow-up
\* comment on it
HandlePostedNow(h) ==
  /\ h \in 1..Len(threads')
  /\ (h > Len(threads) \/ threads'[h].followups > threads[h].followups)

\* the ledger entries this step records or replaces
RecordedNow ==
  {e \in 1..Len(issue_threads') :
     \/ ~DictHas(issue_threads, issue_threads'[e].key)
     \/ DictGet(issue_threads, issue_threads'[e].key) # issue_threads'[e].tid}

LedgerCoversCurrent ==
  \A key \in keys_log[Len(keys_log)] :
    /\ DictHas(issue_threads, key)
    /\ DictGet(issue_threads, key) \in 1..Len(threads)

\* the step that posts the comments of an iteration, or skips the posting
\* when post_comments is off, and appends the iteration record, with no
\* remote call failing
ReconcilesWithoutFailure ==
  /\ pc = "post"
  /\ failures' = failures
  /\ pc' # "raised_remote"

\* C22 as stated: after the reconciling step of an iteration in which no
\* remote call failed, every key of the current issue set has a ledger entry
\* with a thread handle.
C22_CurrentKeysHaveThreads ==
  [][ ReconcilesWithoutFailure => LedgerCoversCurrent' ]_vars

\* C22 amended: the same, for a session that was asked to post comments.
C22_CurrentKeysHaveThreadsWhenPosting ==
  [][ (ReconcilesWithoutFailure /\ post_comments) => LedgerCoversCurrent' ]_vars

\* iteration 2 reported a key that iteration 1 did not, and after its
\* reconciling step the ledger covers the issue set
C22_Witness ==
  /\ post_comments /\ failures = 0
  /\ Len(keys_log) = 2 /\ Len(iterations) = 2
  /\ keys_log[2] \ keys_log[1] # {}
  /\ LedgerCoversCurrent

\* every Fixer call so far returned content that differs from the content
\* it was given (contents are numbered from 1)
EveryFixChangedContent == current_content = 1 + fixerCalls

\* C23: Critic and Fixer calls strictly alternate, starting with the Critic:
\* a Critic call is made when as many Fixer as Critic calls were made before
\* and every one of those Fixer calls changed the content; a Fixer call is
\* made when exactly one more Critic call than Fixer calls was made.
C23_CriticFixerAlternate ==
  [][ /\ criticCalls' > criticCalls =>
           (fixerCalls = criticCalls /\ EveryFixChangedContent)
      /\ fixerCalls' > fixerCalls => criticCalls = fixerCalls + 1
    ]_vars

\* three Critic calls with a Fixer call between each two
C23_Witness == criticCalls = 3 /\ fixerCalls = 2 /\ current_content = 3

\* C24: every Critic call is handed the baseline content the session was
\* given (content 0) and, as content under review, what the latest Fixer call
\* returned (the initial content 1 in the first iteration).
C24_CriticInputs ==
  [][ criticCalls' > criticCalls =>
        /\ old_content = 0
        /\ EveryFixChangedContent
        /\ (impl = "core" /\ fixerCalls >= 1) => current_content = improved_content
    ]_vars

\* every call to the Critic, the Fixer and the remote store has returned
EveryCallReturned == failures = 0 /\ pc \notin {"raised_critic", "raised_fixer"}

\* C25 (its safety part): with max_iterations >= 1 and every call to the
\* Critic, the Fixer and the remote store returning, the session does not
\* end in an unhandled error, and a result it returns has iterations_completed
\* between 1 and max_iterations.
C25_NoUnhandledError ==
  (max_iterations >= 1 /\ EveryCallReturned) =>
    /\ ~Raised
    /\ Returned => final_result.iterations_completed \in 1..max_iterations

\* this step leaves the records as they are or appends one record
RecordsAppendOnly ==
  \/ iterations' = iterations
  \/ /\ Len(iterations') = Len(iterations) + 1
     /\ SubSeq(iterations', 1, Len(iterations)) = iterations

\* the i-th record has iteration index i
RecordsNumbered ==
  \A i \in 1..Len(iterations) : iterations[i].iteration = i

\* the result counts the records, one for every Critic call of the session
ResultCountsRecords ==
  Returned =>
    /\ final_result.iterations = iterations
    /\ final_result.iterations_completed = Len(iterations)
    /\ Len(iterations) = criticCalls

\* C26: the iteration records are append-only and numbered 1, 2, ..., and
\* iterations_completed of the result is the number of records, which is
\* the number of Critic calls of the session.
C26_RecordsAppendOnly ==
  [][ RecordsAppendOnly /\ RecordsNumbered' /\ ResultCountsRecords' ]_vars

\* the place of the last continuation line of the bullet at place i: the
\* lines after it that are neither bullets nor headers
ContinuationEnd(text, i) ==
  Max({j \in i..Len(text) : \A m \in (i + 1)..j : text[m].k \notin {"bul", "hdr"}})

\* the bullet at place i with its continuation lines
Accumulated(text, i) == SubSeq(text, i, ContinuationEnd(text, i))

\* the first integer written as "line <n>" or "lines <n>-<m>" in some lines,
\* 0 when there is none
RECURSIVE FirstReference(_)
FirstReference(lines) ==
  IF lines = <<>> THEN 0
  ELSE IF Head(lines).form # "none" THEN Head(lines).n
  ELSE FirstReference(Tail(lines))

\* C27: the description of every issue the parser returns is a bullet with
\* its continuation lines, up to the next bullet or header and no further,
\* and a line reference in that text, a continuation line included, is the
\* issue's line number.
C27_ContinuationLinesAccumulated ==
  pc = "parsed" =>
    \A k \in 1..Len(current_issues) :
      \E i \in 1..Len(reviewer_analysis) :
        LET acc == Accumulated(reviewer_analysis, i)
        IN /\ reviewer_analysis[i].k = "bul"
           /\ current_issues[k].text = [m \in 1..Len(acc) |-> acc[m].t]
           /\ FirstReference(acc) # 0 => current_issues[k].line = FirstReference(acc)

\* the bullets of a text that stand before any header
StrayBullets(text) ==
  {i \in 1..Len(text) : text[i].k = "bul" /\ \A j \in 1..(i - 1) : text[j].k # "hdr"}

\* the issues the session's parser extracts from the critique it holds
ParsedIssues ==
  IF impl = "root" THEN _extract_issues(reviewer_analysis)
                   ELSE core_extract_issues(reviewer_analysis)

\* a bullet before any header is parsed into an issue with the empty category
StrayBulletsParsed ==
  \A i \in StrayBullets(reviewer_analysis) :
    \E k \in 1..Len(ParsedIssues) :
      ParsedIssues[k].section = "" /\ Head(ParsedIssues[k].text) = reviewer_analysis[i].t

\* no thread was created for an issue with the empty category
StrayBulletsNotTracked ==
  \A t \in 1..Len(threads) : threads[t].kind = "issue" => threads[t].sec # ""

\* C28: a bullet that appears before any section header is parsed into an
\* issue with the empty string as category, and no thread is created for it
\* (so it is never reported resolved).
C28_StrayBulletParsedNotTracked ==
  StrayBulletsParsed /\ StrayBulletsNotTracked

\* C29: with the session of another file working on the same store, this
\* session never posts a comment on, or changes the status of, a thread the
\* other session created: every such thread is as it was created, and no
\* ledger entry of this session holds its handle.
C29_OtherSessionsThreadsUntouched ==
  /\ \A t \in OthersIn(threads) : threads[t] \in OtherThreads
  /\ DictValues(issue_threads) \cap OthersIn(threads) = {}

\* this session posted a follow-up on a thread of its own on line 5 and set
\* one to fixed while the other session has a thread on line 5 of its file
C29_Witness ==
  /\ \E t \in OthersIn(threads) : threads[t].line = 5
  /\ \E t \in 1..Len(threads) :
       threads[t].kind = "issue" /\ threads[t].line = 5 /\ threads[t].followups >= 1
  /\ \E t \in 1..Len(threads) : threads[t].kind = "issue" /\ threads[t].fixes >= 1

\* the threads that this step sets to fixed
FixedNow ==
  {t \in 1..Len(threads) : threads'[t].fixes > threads[t].fixes}

\* the handles the ledger records for keys of the current issue set
HandlesOfCurrentIssues ==
  {issue_threads[e].tid :
     e \in {d \in 1..Len(issue_threads) : issue_threads[d].key \in keys_log[Len(keys_log)]}}

\* C30: the reconciling step of an iteration (root: before the posting,
\* core: after the Fixer) sets no thread to fixed whose handle the ledger
\* records for a key of the current issue set.
C30_NoFixWhileKeyCurrent ==
  [][ (pc \in {"reconcile", "mark"}) => (FixedNow \cap HandlesOfCurrentIssues = {}) ]_vars

\* C31: two different issue keys are never recorded in the ledger with the
\* same thread handle.
C31_OneKeyPerHandle ==
  \A d, e \in 1..Len(issue_threads) :
    issue_threads[d].key # issue_threads[e].key =>
      issue_threads[d].tid # issue_threads[e].tid

\* C32: a summary thread is never recorded in the ledger as the thread of
\* an issue, never receives a follow-up or a confirmation comment and is
\* never set to fixed.
C32_SummaryThreadLeftAlone ==
  \A t \in 1..Len(threads) :
    threads[t].kind = "summary" =>
      /\ t \notin DictValues(issue_threads)
      /\ threads[t].followups = 0
      /\ threads[t].confirms = 0
      /\ threads[t].fixes = 0


\* the content the latest Critic call examined: contents are numbered from
\* 1, the Fixer returns its input or the next number, and the Critic is
\* called on current_content, which at its k-th call is content k
ContentOfLastCritique == criticCalls

\* C33: the final_content of a result returned after at least one Critic
\* call is the content the last Critic call examined.
C33_FinalContentWasCritiqued ==
  (Returned /\ criticCalls >= 1) =>
    final_result.final_content = ContentOfLastCritique


\* C34: a session with post_comments = FALSE makes no call to the remote
\* thread store: no step changes the store, no step after the fetch of the
\* pull request is a remote call that can fail, and the result it returns
\* reports no thread.
C34_NoStoreCallWithoutPosting ==
  [][ ~post_comments =>
        /\ threads' = threads
        /\ (pc # "start") => (failures' = failures /\ pc' # "raised_remote")
        /\ final_result'.returned => final_result'.threads = {}
    ]_vars

\* a session without posting returned after two iterations with issues, one
\* of which disappeared in the second, and the store is as it was
C34_Witness ==
  /\ ~post_comments /\ Returned
  /\ Len(keys_log) = 2 /\ keys_log[2] # {} /\ keys_log[1] \ keys_log[2] # {}
  /\ fixerCalls = 2
  /\ threads \in InitialStores
  /\ final_result.threads = {}


\* the keys whose ledger status is Resolved.  root keeps them in
\* resolved_issues; core keeps no status of its own: the status of a key is
\* that of the thread the ledger records for it, fixed once
\* update_thread_status was sent for it
ResolvedKeys ==
  IF impl = "root"
    THEN resolved_issues
    ELSE {issue_threads[e].key :
            e \in {d \in 1..Len(issue_threads) :
                     threads[issue_threads[d].tid].fixes >= 1}}

\* the keys of the current issue set
CurrentKeys == IF keys_log = <<>> THEN {} ELSE keys_log[Len(keys_log)]

\* C35: after the reconciling step of an iteration (root: before the
\* posting, core: after the Fixer) no key of the current issue set has
\* ledger status Resolved.
C35_CurrentKeysAreOpen ==
  [][ (pc \in {"reconcile", "mark"} /\ pc' # "raised_remote") =>
        (CurrentKeys' \cap ResolvedKeys' = {}) ]_vars

=============================================================================
